---- MODULE Spec2Model ----
(***************************************************************************)
(* Model of gfx-texture (src/src/lib.rs): TextureBuilder, its setters,     *)
(* TextureBuilder::build with its three factory calls, the Texture         *)
(* accessors and the byte reinterpretation cast_cow/cast_slice/cast_vec.   *)
(*                                                                         *)
(* Numbers.  The builder's extents and strides are u32 and the size check  *)
(* of build multiplies four of them in u32.  TLC's integers stop below     *)
(* 2^31, so every quantity that can leave that range (the u32 product, its *)
(* exact mathematical value, the buffer's length in bits) is computed on   *)
(* little-endian base-256 digit sequences; the u32 result is the low four  *)
(* digits.  usize is taken to be 64 bits wide, so data.len() * 8 is exact. *)
(*                                                                         *)
(* Buffers.  A buffer is written as its leading elements followed by a     *)
(* count of zero elements, so that zero-filled buffers of texture size     *)
(* (up to 2^30 bytes) are values of the model.                             *)
(***************************************************************************)
EXTENDS Integers, Sequences, FiniteSets, TLC

VARIABLES
    builder,          \* the TextureBuilder, or NoBuilder once it was moved into a call that panicked
    pc,               \* position of the build call in flight: "idle" when none is
    calls,            \* the factory calls of the current (or last) build, in order
    image,            \* the Image create_image returned to the build in flight
    view,             \* the ImageView create_image_view returned to the build in flight
    result,           \* outcome of the last operation
    castIn            \* the typed buffer last handed to set_data / with_data, NoBuffer before

vars == <<builder, pc, calls, image, view, result, castIn>>

----------------------------------------------------------------------------
(* Bounds of the model *)

\* extents and strides are drawn from 1..MaxSmallSize and BigSize
MaxSmallSize == 2
\* one large extent, so that products of extents leave the u32 range
BigSize == 16384
\* SpecCast: typed buffers have at most MaxElems leading non-zero elements ...
MaxElems == 2
\* ... followed by at most MaxZeros zero elements
MaxZeros == 2

Sizes == (1..MaxSmallSize) \cup {BigSize}

----------------------------------------------------------------------------
(* Unbounded naturals as little-endian base-256 digit sequences *)

RECURSIVE Big(_)
Big(n) == IF n = 0 THEN <<>> ELSE <<n % 256>> \o Big(n \div 256)

RECURSIVE BigTrim(_)
BigTrim(a) ==
    IF a = <<>> THEN <<>>
    ELSE IF a[Len(a)] = 0 THEN BigTrim(SubSeq(a, 1, Len(a) - 1))
    ELSE a

RECURSIVE BigAddC(_, _, _)
BigAddC(a, b, carry) ==
    IF a = <<>> /\ b = <<>> THEN (IF carry = 0 THEN <<>> ELSE <<carry>>)
    ELSE LET x == IF a = <<>> THEN 0 ELSE Head(a)
             y == IF b = <<>> THEN 0 ELSE Head(b)
             t == x + y + carry
         IN  <<t % 256>> \o BigAddC(IF a = <<>> THEN <<>> ELSE Tail(a),
                                    IF b = <<>> THEN <<>> ELSE Tail(b),
                                    t \div 256)

BigAdd(a, b) == BigTrim(BigAddC(a, b, 0))

RECURSIVE BigMulDigit(_, _, _)
BigMulDigit(a, d, carry) ==
    IF a = <<>> THEN Big(carry)
    ELSE LET t == Head(a) * d + carry
         IN  <<t % 256>> \o BigMulDigit(Tail(a), d, t \div 256)

RECURSIVE BigMulR(_, _)
BigMulR(a, b) ==
    IF b = <<>> THEN <<>>
    ELSE BigAddC(BigMulDigit(a, Head(b), 0), <<0>> \o BigMulR(a, Tail(b)), 0)

BigMul(a, b) == BigTrim(BigMulR(a, b))

\* a <= b, for trimmed a and b
RECURSIVE BigLeqAt(_, _, _)
BigLeqAt(a, b, i) ==
    IF i = 0 THEN TRUE
    ELSE IF a[i] # b[i] THEN a[i] < b[i]
    ELSE BigLeqAt(a, b, i - 1)

BigLeq(a, b) ==
    IF Len(a) # Len(b) THEN Len(a) < Len(b) ELSE BigLeqAt(a, b, Len(a))

\* the value of a trimmed digit sequence that is below 2^31
RECURSIVE BigToInt(_)
BigToInt(a) == IF a = <<>> THEN 0 ELSE Head(a) + 256 * BigToInt(Tail(a))

BigFitsInt(a) == Len(a) < 4 \/ (Len(a) = 4 /\ a[4] < 128)

----------------------------------------------------------------------------
(* u32 arithmetic *)

\* a value fits u32 when it has at most four base-256 digits
FitsU32(a) == Len(a) <= 4

\* the low 32 bits
WrapU32(a) == BigTrim(SubSeq(a, 1, IF Len(a) < 4 THEN Len(a) ELSE 4))

----------------------------------------------------------------------------
(* hal::image::Kind and hal::format::Format, as far as lib.rs reads them *)

\* Kind::D1(width, layers), Kind::D2(width, height, layers, samples),
\* Kind::D3(width, height, depth)
Kinds ==
    {<<"D1", w, 1>> : w \in Sizes}
    \cup {<<"D2", w, h, 1, 1>> : w \in Sizes, h \in Sizes}
    \cup {<<"D3", w, h, d>> : w \in Sizes, h \in Sizes, d \in Sizes}

\* kind.extent()
extent(kind) ==
    CASE kind[1] = "D1" -> [width |-> kind[2], height |-> 1, depth |-> 1]
      [] kind[1] = "D2" -> [width |-> kind[2], height |-> kind[3], depth |-> 1]
      [] kind[1] = "D3" -> [width |-> kind[2], height |-> kind[3], depth |-> kind[4]]

ColorFormats == {"R8Unorm", "Rgba8Srgb"}
Formats == ColorFormats \cup {"D16Unorm", "S8Uint", "D24UnormS8Uint"}

\* format.surface_desc().aspects
aspects(format) ==
    CASE format \in ColorFormats -> {"COLOR"}
      [] format = "D16Unorm" -> {"DEPTH"}
      [] format = "S8Uint" -> {"STENCIL"}
      [] format = "D24UnormS8Uint" -> {"DEPTH", "STENCIL"}

\* format.base_format().0.desc().bits
bits(format) ==
    CASE format = "R8Unorm" -> 8
      [] format = "Rgba8Srgb" -> 32
      [] format = "D16Unorm" -> 16
      [] format = "S8Uint" -> 8
      [] format = "D24UnormS8Uint" -> 32

----------------------------------------------------------------------------
(* Buffers and the byte reinterpretation *)

\* A slice &[T] is [size, elems, zeros]: size_of::<T>(), the leading elements
\* and the number of zero elements after them.  A Vec<T> has its capacity too.
\* A Cow<[T]> is <<"Borrowed", slice>> or <<"Owned", vec>>.
len(buf) == Len(buf.elems) + buf.zeros

\* the size_of::<T>() bytes of one element, as they lie in memory (little-endian)
RECURSIVE ElemBytes(_, _)
ElemBytes(v, size) ==
    IF size = 0 THEN <<>> ELSE <<v % 256>> \o ElemBytes(v \div 256, size - 1)

\* the element that size_of::<T>() bytes of memory hold
RECURSIVE ElemOfBytes(_)
ElemOfBytes(bs) == IF bs = <<>> THEN 0 ELSE Head(bs) + 256 * ElemOfBytes(Tail(bs))

RECURSIVE FlattenElems(_, _)
FlattenElems(elems, size) ==
    IF elems = <<>> THEN <<>>
    ELSE ElemBytes(Head(elems), size) \o FlattenElems(Tail(elems), size)

\* the memory ptr points at: the bytes of the buffer's elements, in order
Memory(buf) ==
    [elems |-> FlattenElems(buf.elems, buf.size), zeros |-> buf.size * buf.zeros]

\* from_raw_parts(ptr as *const u8, n): the first n bytes of that memory
FromRawParts(mem, n) ==
    IF n <= Len(mem.elems)
    THEN [size |-> 1, elems |-> SubSeq(mem.elems, 1, n), zeros |-> 0]
    ELSE [size |-> 1, elems |-> mem.elems,
          zeros |-> IF n - Len(mem.elems) <= mem.zeros
                    THEN n - Len(mem.elems) ELSE mem.zeros]

\* cast_vec with the element size left out of the length
cast_vec_unscaled(vec) ==
    LET raw_len == len(vec)
        cap == vec.size * vec.cap
        bytes == FromRawParts(Memory(vec), raw_len)
    IN  [size |-> 1, elems |-> bytes.elems, zeros |-> bytes.zeros, cap |-> cap]

cast_vec(vec) ==
    LET raw_len == vec.size * len(vec)
        cap == vec.size * vec.cap
        bytes == FromRawParts(Memory(vec), raw_len)
    IN  [size |-> 1, elems |-> bytes.elems, zeros |-> bytes.zeros, cap |-> cap]

cast_slice(slice) ==
    LET raw_len == slice.size * len(slice)
    IN  FromRawParts(Memory(slice), raw_len)

cast_cow(cow) ==
    CASE cow[1] = "Borrowed" -> <<"Borrowed", cast_slice(cow[2])>>
      [] cow[1] = "Owned" -> <<"Owned", cast_vec(cow[2])>>

----------------------------------------------------------------------------
(* TextureBuilder *)

NoBuilder == [moved |-> TRUE]

\* Vec::new().into()
EmptyData == <<"Owned", [size |-> 1, elems |-> <<>>, zeros |-> 0, cap |-> 0]>>

new(kind) ==
    [kind |-> kind,
     format |-> "Rgba8Srgb",
     data_width |-> extent(kind).width,
     data_height |-> extent(kind).height,
     data |-> EmptyData]

\* set_format and set_data_width without their assertions
set_format_unchecked(self, format) ==
    [panicked |-> FALSE, self |-> [self EXCEPT !.format = format]]

set_data_width_unchecked(self, data_width) ==
    [panicked |-> FALSE, self |-> [self EXCEPT !.data_width = data_width]]

\* A setter yields [panicked, self]: whether its assertion failed, and the
\* builder the caller holds afterwards.
set_format(self, format) ==
    IF aspects(format) # {"COLOR"}
    THEN [panicked |-> TRUE, self |-> self]
    ELSE [panicked |-> FALSE, self |-> [self EXCEPT !.format = format]]

set_data_width(self, data_width) ==
    IF ~(data_width >= extent(self.kind).width)
    THEN [panicked |-> TRUE, self |-> self]
    ELSE [panicked |-> FALSE, self |-> [self EXCEPT !.data_width = data_width]]

set_data_height(self, data_height) ==
    IF ~(data_height >= extent(self.kind).height)
    THEN [panicked |-> TRUE, self |-> self]
    ELSE [panicked |-> FALSE, self |-> [self EXCEPT !.data_height = data_height]]

set_data(self, data) ==
    [panicked |-> FALSE, self |-> [self EXCEPT !.data = cast_cow(data)]]

\* The consuming forms take the builder by value: when the setter panics the
\* builder is dropped by the unwinding and the caller holds none.
Consuming(r) == IF r.panicked THEN [panicked |-> TRUE, self |-> NoBuilder] ELSE r

with_format(self, format) == Consuming(set_format(self, format))
with_data_width(self, data_width) == Consuming(set_data_width(self, data_width))
with_data_height(self, data_height) == Consuming(set_data_height(self, data_height))
with_data(self, data) == Consuming(set_data(self, data))

----------------------------------------------------------------------------
(* TextureBuilder::build: the checks before the first factory call *)

\* a * b in u32: whether it overflows, and its low 32 bits
MulU32(a, b) ==
    LET exact == BigMul(a, b)
    IN  [overflow |-> ~FitsU32(exact), value |-> WrapU32(exact)]

\* self.data_width * extent.height * extent.depth * bits as u32, left to right
size_in_bits(self) ==
    LET e == extent(self.kind)
        m1 == MulU32(Big(self.data_width), Big(e.height))
        m2 == MulU32(m1.value, Big(e.depth))
        m3 == MulU32(m2.value, Big(bits(self.format)))
    IN  [overflow |-> m1.overflow \/ m2.overflow \/ m3.overflow, value |-> m3.value]

\* self.data.len() * 8, in usize
data_bits(self) == BigMul(Big(len(self.data[2])), Big(8))

\* The two assertions of build: "ok" when both pass, else which one panicked.
\* With overflow checks compiled in, an overflowing multiplication panics;
\* without them it wraps.
validate(self, checks) ==
    LET rhs == size_in_bits(self)
    IN  IF ~(self.data_width >= extent(self.kind).width) THEN "data_width"
        ELSE IF checks /\ rhs.overflow THEN "overflow"
        ELSE IF ~BigLeq(rhs.value, data_bits(self)) THEN "size"
        ELSE "ok"

----------------------------------------------------------------------------
(* The factory's requests and answers *)

NoHandle == [none |-> TRUE]

create_image_args(self) ==
    [kind |-> self.kind, levels |-> 1, format |-> self.format, tiling |-> "Optimal",
     usage |-> {"TRANSFER_DST", "SAMPLED"}, properties |-> {"DEVICE_LOCAL"}]

view_kind(kind) ==
    CASE kind[1] = "D1" -> "D1"
      [] kind[1] = "D2" -> "D2"
      [] kind[1] = "D3" -> "D3"

create_image_view_args(self, img) ==
    [image |-> img, view_kind |-> view_kind(self.kind), format |-> self.format,
     swizzle |-> "NO", aspects |-> {"COLOR"}, levels |-> <<0, 1>>, layers |-> <<0, 1>>]

upload_image_args(self, img) ==
    [image |-> img, layout |-> "ShaderReadOnlyOptimal", access |-> {"SHADER_READ"},
     aspects |-> {"COLOR"}, level |-> 0, layers |-> <<0, 1>>, offset |-> <<0, 0, 0>>,
     extent |-> extent(self.kind), data_width |-> self.data_width,
     data_height |-> self.data_height, data |-> self.data[2]]

\* what the factory hands back on success: the resource as it was requested
ImageOf(args) == [kind |-> args.kind, format |-> args.format]
ViewOf(args) == [view_kind |-> args.view_kind, format |-> args.format]

\* Ok(Texture { kind, format, image, view })
TextureOf(self, img, v) ==
    [kind |-> self.kind, format |-> self.format, image |-> img, view |-> v]

\* Texture::kind, Texture::format
kind(texture) == texture.kind
format(texture) == texture.format

----------------------------------------------------------------------------
(* Inputs *)

\* the exact number of bytes the size check asks for, when it is below 2^31
RequiredBytes(self) ==
    LET e == extent(self.kind)
        exact == BigMul(BigMul(Big(self.data_width), Big(e.height)),
                        BigMul(Big(e.depth), Big(bits(self.format) \div 8)))
    IN  IF BigFitsInt(exact) THEN {BigToInt(exact)} ELSE {}

\* Spec: zero-filled u8 buffers, borrowed or owned, that are empty, exactly as
\* long as the builder's current configuration requires, or one byte shorter
ByteBufferLens(self) ==
    IF self = NoBuilder THEN {}
    ELSE {0} \cup RequiredBytes(self) \cup {n - 1 : n \in RequiredBytes(self)}

ByteBuffers(self) ==
    {<<"Borrowed", [size |-> 1, elems |-> <<>>, zeros |-> n]>> : n \in ByteBufferLens(self)}
    \cup {<<"Owned", [size |-> 1, elems |-> <<>>, zeros |-> n, cap |-> n]>> :
            n \in ByteBufferLens(self)}

\* SpecCast: buffers of 1-, 2- and 4-byte elements with some non-zero content
ElemSizes == {1, 2, 4}
ElemValues(size) == {1, 2 + 256 ^ (size - 1)}

SeqsUpTo(S, n) == UNION {[1..k -> S] : k \in 0..n}

TypedBuffers ==
    UNION {
        {<<"Borrowed", [size |-> k, elems |-> es, zeros |-> z]>> :
            es \in SeqsUpTo(ElemValues(k), MaxElems), z \in 0..MaxZeros}
        \cup {<<"Owned", [size |-> k, elems |-> es, zeros |-> z, cap |-> Len(es) + z + spare]>> :
            es \in SeqsUpTo(ElemValues(k), MaxElems), z \in 0..MaxZeros, spare \in 0..1}
        : k \in ElemSizes}

NoBuffer == <<"None">>

----------------------------------------------------------------------------
(* State machine *)

Init ==
    /\ builder \in {new(k) : k \in Kinds}
    /\ pc = "idle"
    /\ calls = <<>>
    /\ image = NoHandle
    /\ view = NoHandle
    /\ result = [tag |-> "Ok"]
    /\ castIn = NoBuffer

\* the caller holds a builder and no build is in flight
Idle == pc = "idle" /\ builder # NoBuilder

\* the effect of a setter call that yielded r
Configure(r, at) ==
    /\ builder' = r.self
    /\ result' = IF r.panicked THEN [tag |-> "Panic", at |-> at] ELSE [tag |-> "Ok"]
    /\ calls' = <<>>
    /\ UNCHANGED <<pc, image, view>>

SetFormat(f) == Idle /\ Configure(set_format(builder, f), "set_format") /\ UNCHANGED castIn
WithFormat(f) == Idle /\ Configure(with_format(builder, f), "set_format") /\ UNCHANGED castIn

SetDataWidth(w) ==
    Idle /\ Configure(set_data_width(builder, w), "set_data_width") /\ UNCHANGED castIn
WithDataWidth(w) ==
    Idle /\ Configure(with_data_width(builder, w), "set_data_width") /\ UNCHANGED castIn

SetDataHeight(h) ==
    Idle /\ Configure(set_data_height(builder, h), "set_data_height") /\ UNCHANGED castIn
WithDataHeight(h) ==
    Idle /\ Configure(with_data_height(builder, h), "set_data_height") /\ UNCHANGED castIn

SetData(cow) == Idle /\ Configure(set_data(builder, cow), "set_data") /\ castIn' = cow
WithData(cow) == Idle /\ Configure(with_data(builder, cow), "set_data") /\ castIn' = cow

\* build, up to its first factory call.  Whether an overflowing multiplication
\* panics or wraps is decided by the profile the crate is compiled with
\* (overflow-checks); a call may meet either.
Build(overflow_checks) ==
    /\ Idle
    /\ LET v == validate(builder, overflow_checks)
       IN  IF v = "ok"
           THEN pc' = "create_image" /\ result' = [tag |-> "Building"]
           ELSE pc' = "idle" /\ result' = [tag |-> "Panic", at |-> "build", assertion |-> v]
    /\ calls' = <<>>
    /\ image' = NoHandle
    /\ view' = NoHandle
    /\ UNCHANGED <<builder, castIn>>

\* create_image without the `?`: build goes on after a failure
CreateImage_continuesOnError(ok) ==
    /\ pc = "create_image"
    /\ LET args == create_image_args(builder)
       IN  /\ calls' = Append(calls, [op |-> "create_image", ok |-> ok, args |-> args])
           /\ image' = ImageOf(args)
    /\ pc' = "create_image_view"
    /\ UNCHANGED <<builder, result, view, castIn>>

\* factory.create_image(...)?
CreateImage(ok) ==
    /\ pc = "create_image"
    /\ LET args == create_image_args(builder)
       IN  /\ calls' = Append(calls, [op |-> "create_image", ok |-> ok, args |-> args])
           /\ IF ok
              THEN pc' = "create_image_view" /\ image' = ImageOf(args) /\ UNCHANGED result
              ELSE pc' = "idle" /\ image' = NoHandle
                   /\ result' = [tag |-> "Err", at |-> "create_image"]
    /\ UNCHANGED <<builder, view, castIn>>

\* factory.create_image_view(...)?
CreateImageView(ok) ==
    /\ pc = "create_image_view"
    /\ LET args == create_image_view_args(builder, image)
       IN  /\ calls' = Append(calls, [op |-> "create_image_view", ok |-> ok, args |-> args])
           /\ IF ok
              THEN pc' = "upload_image" /\ view' = ViewOf(args) /\ UNCHANGED <<image, result>>
              ELSE pc' = "idle" /\ image' = NoHandle /\ view' = NoHandle
                   /\ result' = [tag |-> "Err", at |-> "create_image_view"]
    /\ UNCHANGED <<builder, castIn>>

\* upload_image without the `?`: build returns the Texture whatever it answered
UploadImage_ignoresError(ok) ==
    /\ pc = "upload_image"
    /\ LET args == upload_image_args(builder, image)
       IN  calls' = Append(calls, [op |-> "upload_image", ok |-> ok, args |-> args])
    /\ result' = [tag |-> "Texture", texture |-> TextureOf(builder, image, view)]
    /\ pc' = "idle"
    /\ image' = NoHandle
    /\ view' = NoHandle
    /\ UNCHANGED <<builder, castIn>>

\* upload_image handed the buffer by value: the builder is left with none
UploadImage_takesData(ok) ==
    /\ pc = "upload_image"
    /\ LET args == upload_image_args(builder, image)
       IN  /\ calls' = Append(calls, [op |-> "upload_image", ok |-> ok, args |-> args])
           /\ IF ok
              THEN result' = [tag |-> "Texture", texture |-> TextureOf(builder, image, view)]
              ELSE result' = [tag |-> "Err", at |-> "upload_image"]
    /\ builder' = [builder EXCEPT !.data = EmptyData]
    /\ pc' = "idle"
    /\ image' = NoHandle
    /\ view' = NoHandle
    /\ UNCHANGED castIn

\* factory.upload_image(...)?, then Ok(Texture { .. })
UploadImage(ok) ==
    /\ pc = "upload_image"
    /\ LET args == upload_image_args(builder, image)
       IN  /\ calls' = Append(calls, [op |-> "upload_image", ok |-> ok, args |-> args])
           /\ IF ok
              THEN result' = [tag |-> "Texture", texture |-> TextureOf(builder, image, view)]
              ELSE result' = [tag |-> "Err", at |-> "upload_image"]
    /\ pc' = "idle"
    /\ image' = NoHandle
    /\ view' = NoHandle
    /\ UNCHANGED <<builder, castIn>>

Next ==
    \/ \E f \in Formats : SetFormat(f)
    \/ \E f \in Formats : WithFormat(f)
    \/ \E w \in Sizes : SetDataWidth(w)
    \/ \E w \in Sizes : WithDataWidth(w)
    \/ \E h \in Sizes : SetDataHeight(h)
    \/ \E h \in Sizes : WithDataHeight(h)
    \/ \E cow \in ByteBuffers(builder) : SetData(cow)
    \/ \E cow \in ByteBuffers(builder) : WithData(cow)
    \/ \E overflow_checks \in BOOLEAN : Build(overflow_checks)
    \/ \E ok \in BOOLEAN : CreateImage(ok)
    \/ \E ok \in BOOLEAN : CreateImageView(ok)
    \/ \E ok \in BOOLEAN : UploadImage(ok)

Spec == Init /\ [][Next]_vars

\* the byte reinterpretation alone: set_data and with_data on typed buffers
NextCast ==
    \/ \E cow \in TypedBuffers : SetData(cow)
    \/ \E cow \in TypedBuffers : WithData(cow)

\* one builder is enough there: the reinterpretation does not read the kind
InitCast == Init /\ builder = new(<<"D1", 1, 1>>)

SpecCast == InitCast /\ [][NextCast]_vars

----------------------------------------------------------------------------
(* Vocabulary of the properties *)

FactoryOrder == <<"create_image", "create_image_view", "upload_image">>

AllOk == \A i \in 1..Len(calls) : calls[i].ok

\* a build call has returned (or panicked) and nothing was called since
BuildPanicked == result.tag = "Panic" /\ result.at = "build"
BuildReturned == pc = "idle" /\ (result.tag \in {"Texture", "Err"} \/ BuildPanicked)

\* a build call got past its assertions
PassedValidation == pc # "idle" \/ result.tag \in {"Texture", "Err"}

\* data_width * height * depth * bits_per_pixel, the mathematical product
ExactBits(self) ==
    LET e == extent(self.kind)
    IN  BigMul(BigMul(Big(self.data_width), Big(e.height)),
               BigMul(Big(e.depth), Big(bits(self.format))))

\* the buffer holds fewer bits than that product
TooShort(self) == ~BigLeq(ExactBits(self), data_bits(self))

\* bytes up to the end of the last pixel an upload with these arguments reads:
\* (((depth - 1) * data_height + (height - 1)) * data_width + width) * bytes_per_pixel
UploadReach(args) ==
    LET e == args.extent
        rows == BigAdd(BigMul(Big(e.depth - 1), Big(args.data_height)), Big(e.height - 1))
        pixels == BigAdd(BigMul(rows, Big(args.data_width)), Big(e.width))
    IN  BigMul(pixels, Big(bits(args.image.format) \div 8))

\* the typed buffer that a byte buffer holds, read as elements of `size` bytes
Uncast(bytes, size) ==
    [size |-> size,
     elems |-> [i \in 1..(Len(bytes.elems) \div size) |->
                   ElemOfBytes(SubSeq(bytes.elems, (i - 1) * size + 1, i * size))],
     zeros |-> bytes.zeros \div size]

----------------------------------------------------------------------------
(* Properties *)

\* C1: within one build call the factory is called in the order create_image,
\* create_image_view, upload_image, each at most once, and each call but the
\* first only after the one before it returned success.
C1_FactoryCallOrder ==
    /\ Len(calls) <= 3
    /\ \A i \in 1..Len(calls) : calls[i].op = FactoryOrder[i]
    /\ \A i \in 1..(Len(calls) - 1) : calls[i].ok
    /\ pc # "idle" => /\ AllOk
                      /\ pc = FactoryOrder[Len(calls) + 1]

\* all three calls were made, in one build that succeeded
C1_Witness == Len(calls) = 3 /\ AllOk /\ result.tag = "Texture"

\* C2: build returns a Texture exactly when its assertions passed and all three
\* factory calls succeeded; a failed factory call is the last call made, its
\* error is what build returns, and the Texture returned holds the image and
\* the view the factory returned.
C2_TextureIffAllSucceeded ==
    /\ result.tag = "Texture" =>
          /\ Len(calls) = 3 /\ AllOk
          /\ \E c \in BOOLEAN : validate(builder, c) = "ok"
          /\ result.texture.image = ImageOf(calls[1].args)
          /\ result.texture.view = ViewOf(calls[2].args)
    /\ (pc = "idle" /\ Len(calls) = 3 /\ AllOk) => result.tag = "Texture"
    /\ \A i \in 1..Len(calls) :
          ~calls[i].ok => /\ i = Len(calls)
                          /\ pc = "idle"
                          /\ result = [tag |-> "Err", at |-> calls[i].op]
    /\ BuildPanicked => calls = <<>>

\* create_image succeeded, create_image_view failed: build returned that error
C2_Witness ==
    /\ Len(calls) = 2 /\ calls[1].ok /\ ~calls[2].ok
    /\ result = [tag |-> "Err", at |-> "create_image_view"]

\* C3: a build call on a builder whose buffer is shorter than the required
\* length panics in its size assertion, before any factory call.
C3_ShortBufferRejected ==
    (builder # NoBuilder /\ TooShort(builder) /\ (pc # "idle" \/ BuildReturned)) =>
        BuildPanicked /\ calls = <<>>

\* C4: build gets to create_image only if the buffer's length in bits is at
\* least the mathematical product data_width * height * depth * bits_per_pixel.
C4_SizeCheckIsExact ==
    PassedValidation => BigLeq(ExactBits(builder), data_bits(builder))

\* C5: data_width >= extent.width and data_height >= extent.height in every
\* builder the setters produce; a rejected set_data_width or set_data_height
\* leaves the builder as it was (or, in the consuming form, drops it), and
\* build's own assertion on data_width never fails.
C5_StrideInvariant ==
    /\ [](/\ builder # NoBuilder =>
             /\ builder.data_width >= extent(builder.kind).width
             /\ builder.data_height >= extent(builder.kind).height
          /\ BuildPanicked => result.assertion # "data_width")
    /\ [][(result'.tag = "Panic" /\ result'.at \in {"set_data_width", "set_data_height"})
             => builder' \in {builder, NoBuilder}]_vars

\* set_data_width was rejected on a builder whose data_height had been raised
C5_Witness ==
    /\ result = [tag |-> "Panic", at |-> "set_data_width"]
    /\ builder # NoBuilder
    /\ builder.data_height > extent(builder.kind).height

\* C6: the stored format has aspect exactly COLOR in every builder the setters
\* produce; a rejected set_format leaves the builder as it was (or, in the
\* consuming form, drops it).
C6_FormatIsColor ==
    /\ [](builder # NoBuilder => aspects(builder.format) = {"COLOR"})
    /\ [][(result'.tag = "Panic" /\ result'.at = "set_format")
             => builder' \in {builder, NoBuilder}]_vars

\* set_format was rejected after another format had been accepted
C6_Witness ==
    /\ result = [tag |-> "Panic", at |-> "set_format"]
    /\ builder # NoBuilder
    /\ builder.format = "R8Unorm"

\* C7: a build of a builder with the default strides and a buffer of exactly
\* the required length, against a factory whose calls succeed, returns a
\* Texture with the builder's kind and format.
C7_MinimalBufferBuilds ==
    (/\ builder # NoBuilder
     /\ BuildReturned
     /\ AllOk
     /\ builder.data_width = extent(builder.kind).width
     /\ builder.data_height = extent(builder.kind).height
     /\ data_bits(builder) = ExactBits(builder)) =>
        /\ result.tag = "Texture"
        /\ kind(result.texture) = builder.kind
        /\ format(result.texture) = builder.format

\* C8: no step of build changes the builder.
C8_BuildKeepsBuilder ==
    [][(pc # "idle" \/ pc' # "idle" \/ (result'.tag = "Panic" /\ result'.at = "build"))
          => builder' = builder]_vars

\* build returned the error of upload_image, on a builder that holds data
C8_Witness ==
    /\ result = [tag |-> "Err", at |-> "upload_image"]
    /\ len(builder.data[2]) > 0
    /\ builder.format = "R8Unorm"

\* C9: set_data stores N * K bytes for a buffer of N elements of K bytes, in
\* the same form (borrowed or owned); read back as K-byte elements they are the
\* original values; an empty buffer gives an empty byte buffer.
C9_CastRoundTrip ==
    castIn # NoBuffer =>
        LET in == castIn[2]
            out == builder.data[2]
        IN  /\ builder.data[1] = castIn[1]
            /\ out.size = 1
            /\ len(out) = len(in) * in.size
            /\ Uncast(out, in.size) = [size |-> in.size, elems |-> in.elems, zeros |-> in.zeros]
            /\ len(in) = 0 => len(out) = 0
            /\ castIn[1] = "Owned" => out.cap = in.cap * in.size

\* an owned buffer of 4-byte elements, two of them non-zero
C9_Witness ==
    /\ castIn # NoBuffer
    /\ castIn[1] = "Owned"
    /\ castIn[2].size = 4
    /\ Len(castIn[2].elems) = 2
    /\ castIn[2].zeros > 0
    /\ len(builder.data[2]) = 4 * len(castIn[2])

\* C10: the buffer handed to upload_image reaches the last pixel the upload
\* reads with the strides handed to it.  Stated for the builds whose size
\* product stays within u32, where the size assertion compares the exact
\* product: the wrapped product of C4 is not what lets these uploads through.
C10_UploadWithinBuffer ==
    \A i \in 1..Len(calls) :
        (calls[i].op = "upload_image" /\ ~size_in_bits(builder).overflow) =>
            BigLeq(UploadReach(calls[i].args), Big(len(calls[i].args.data)))

====
